---------------------------- MODULE Spec2Model ----------------------------
(***************************************************************************)
(* Model of src/tokenizer.py (class CustomTokenizer).                      *)
(*                                                                         *)
(* A Python str is a sequence of one-character strings, so "CCO" is        *)
(* <<"C","C","O">>.  A Python dict that is iterated (token_to_id) is the   *)
(* sequence of its items in insertion order, each item a record            *)
(* [k |-> key, v |-> value]; a dict that is only looked up (id_to_token)   *)
(* is a function.  None is the value None.  In the mapping json.load      *)
(* returns, an item whose value is itself a JSON object is the record      *)
(* [k |-> key, m |-> the object's items].                                  *)
(***************************************************************************)
EXTENDS Integers, Sequences, FiniteSets, TLC

VARIABLES
    phase,            \* "unbuilt" | "ready" | "failed" : where __init__ stands
    vocab_path,       \* the argument of __init__
    vocab_data,       \* the mapping json.load returned (items in file order)
    raised,           \* the exception __init__ raised, "none" if none
    error,            \* the token named by the ValueError of __init__, or <<>>
    token_to_id,      \* self.token_to_id
    id_to_token,      \* self.id_to_token
    vocab,            \* self.vocab
    pad_token_id,     \* self.pad_token_id
    mask_token_id,    \* self.mask_token_id
    unk_token_id,     \* self.unk_token_id
    eos_token_id,     \* self.eos_token_id
    noagent_token_id, \* self.noagent_token_id
    op,               \* the public method last called ("none" before any call)
    arg,              \* its argument
    ret,              \* its return value
    prev,             \* the call before it, [op, arg, ret]
    pc,               \* _greedy_tokenize: "idle" | "loop" | "done"
    i,                \* _greedy_tokenize: local i
    tokens,           \* _greedy_tokenize: local tokens
    match             \* _greedy_tokenize: local match of the last iteration

objvars == <<phase, vocab_path, vocab_data, raised, error, token_to_id, id_to_token, vocab,
             pad_token_id, mask_token_id, unk_token_id, eos_token_id,
             noagent_token_id>>
callvars == <<op, arg, ret, prev>>
greedyvars == <<pc, i, tokens, match>>
vars == <<objvars, callvars, greedyvars>>

\* Python's None (ids are integers >= 0, texts are sequences)
None == -1

(***************************************************************************)
(* Bounds of the model.                                                    *)
(***************************************************************************)
\* largest id a candidate vocabulary of SpecConstruct assigns
MaxId == 1

(***************************************************************************)
(* Strings and dicts.                                                      *)
(***************************************************************************)
RECURSIVE Concat(_)
\* ''.join(parts)
Concat(parts) ==
    IF parts = <<>> THEN <<>> ELSE Head(parts) \o Concat(Tail(parts))

\* all sequences over S of length 0..n
SeqsUpTo(S, n) == UNION {[1..k -> S] : k \in 0..n}

\* d.keys() as a set
dict_keys(d) == {d[n].k : n \in 1..Len(d)}

\* d.get(key, default)
dict_get(d, key, default) ==
    IF \E n \in 1..Len(d) : d[n].k = key
    THEN d[CHOOSE n \in 1..Len(d) : d[n].k = key].v
    ELSE default

\* {v: k for k, v in d.items()} : a later item overwrites an earlier one
dict_invert(d) ==
    [x \in {d[n].v : n \in 1..Len(d)} |->
        d[CHOOSE n \in 1..Len(d) :
            /\ d[n].v = x
            /\ \A m \in 1..Len(d) : d[m].v = x => m <= n].k]

(***************************************************************************)
(* The special tokens (tokenizer.py lines 23-27).                          *)
(***************************************************************************)
pad_token == <<"[", "P", "A", "D", "]">>
mask_token == <<"[", "M", "A", "S", "K", "]">>
unk_token == <<"[", "U", "N", "K", "]">>
eos_token == <<"[", "E", "O", "S", "]">>
noagent_token == <<"[", "N", "O", "A", "G", "E", "N", "T", "]">>

\* the order in which __init__ requires them
required_tokens == <<pad_token, mask_token, unk_token, eos_token, noagent_token>>

(***************************************************************************)
(* __init__ and _require_token.                                            *)
(***************************************************************************)
\* tid is None: the token is missing (d.get(token, None))
require_fails_falsy(d, token) ==
    dict_get(d, token, None) = None \/ dict_get(d, token, None) = 0

\* _require_token raises ValueError
require_fails(d, token) == dict_get(d, token, None) = None

\* the first required token whose _require_token raises, 0 if none does
first_missing(d) ==
    IF \E n \in 1..Len(required_tokens) : require_fails(d, required_tokens[n])
    THEN CHOOSE n \in 1..Len(required_tokens) :
            /\ require_fails(d, required_tokens[n])
            /\ \A m \in 1..(n - 1) : ~require_fails(d, required_tokens[m])
    ELSE 0

\* the id __init__ stores for the n-th required token: assigned only if no
\* earlier _require_token (nor this one) raised
required_id(d, n) ==
    IF first_missing(d) = 0 \/ n < first_missing(d)
    THEN dict_get(d, required_tokens[n], None)
    ELSE None

\* the paths tried: one that ends in '.json' and one that does not
JsonPath == <<"v", ".", "j", "s", "o", "n">>
TxtPath == <<"v", ".", "t", "x", "t">>

\* vocab_path.endswith('.json')
ends_with_json(path) ==
    /\ Len(path) >= 5
    /\ SubSeq(path, Len(path) - 4, Len(path)) = <<".", "j", "s", "o", "n">>

\* the key of the nested format
token_to_id_key == <<"t", "o", "k", "e", "n", "_", "t", "o", "_", "i", "d">>

\* the item's value is an integer, not a JSON object
int_item(it) == "v" \in DOMAIN it

\* the index of key in data, 0 if data has no such key
key_index(data, key) ==
    IF \E n \in 1..Len(data) : data[n].k = key
    THEN CHOOSE n \in 1..Len(data) : data[n].k = key
    ELSE 0

\* lines 7-17 take vocab_data['token_to_id']: the path ends in '.json' and
\* 'token_to_id' in vocab_data
takes_nested(path, data) ==
    ends_with_json(path) /\ key_index(data, token_to_id_key) # 0

\* what lines 7-17 store in self.token_to_id is a mapping (not an integer)
loaded_is_mapping(path, data) ==
    takes_nested(path, data) => ~int_item(data[key_index(data, token_to_id_key)])

\* self.token_to_id after lines 7-17: vocab_data['token_to_id'] or vocab_data
loaded_token_to_id(path, data) ==
    IF takes_nested(path, data)
    THEN (IF int_item(data[key_index(data, token_to_id_key)])
          THEN data[key_index(data, token_to_id_key)].v
          ELSE data[key_index(data, token_to_id_key)].m)
    ELSE data

\* every value of the mapping is an integer: line 19 can use it as a key
values_hashable(d) == \A n \in 1..Len(d) : int_item(d[n])

\* the exception of lines 19-34: AttributeError where self.token_to_id has
\* no items(), TypeError where a value is a dict, ValueError where
\* _require_token raises
init_raises(path, data) ==
    IF ~loaded_is_mapping(path, data) THEN "AttributeError"
    ELSE IF ~values_hashable(loaded_token_to_id(path, data)) THEN "TypeError"
    ELSE IF first_missing(loaded_token_to_id(path, data)) # 0 THEN "ValueError"
    ELSE "none"

\* CustomTokenizer(vocab_path) on the mapping loaded from the file; a field
\* the constructor did not reach keeps its value
Construct ==
    /\ phase = "unbuilt"
    /\ raised' = init_raises(vocab_path, vocab_data)
    /\ token_to_id' = loaded_token_to_id(vocab_path, vocab_data)
    /\ IF raised' \in {"AttributeError", "TypeError"}
       THEN /\ phase' = "failed" /\ error' = <<>>
            /\ UNCHANGED <<id_to_token, vocab, pad_token_id, mask_token_id,
                           unk_token_id, eos_token_id, noagent_token_id>>
       ELSE /\ id_to_token' = dict_invert(token_to_id')
            /\ vocab' = dict_keys(token_to_id')
            /\ pad_token_id' = required_id(token_to_id', 1)
            /\ mask_token_id' = required_id(token_to_id', 2)
            /\ unk_token_id' = required_id(token_to_id', 3)
            /\ eos_token_id' = required_id(token_to_id', 4)
            /\ noagent_token_id' = required_id(token_to_id', 5)
            /\ IF raised' = "none"
               THEN phase' = "ready" /\ error' = <<>>
               ELSE phase' = "failed" /\ error' = required_tokens[first_missing(token_to_id')]
    /\ UNCHANGED <<vocab_path, vocab_data, callvars, greedyvars>>

\* the fields before __init__ has run on the file at path holding data
Unbuilt(path, data) ==
    /\ phase = "unbuilt"
    /\ vocab_path = path
    /\ vocab_data = data
    /\ raised = "none"
    /\ error = <<>>
    /\ token_to_id = <<>>
    /\ id_to_token = <<>>
    /\ vocab = {}
    /\ pad_token_id = None
    /\ mask_token_id = None
    /\ unk_token_id = None
    /\ eos_token_id = None
    /\ noagent_token_id = None

\* the fields after a successful __init__ on a '.json' file that holds the
\* mapping d directly (d has integer values and no key 'token_to_id')
Built(d) ==
    /\ phase = "ready"
    /\ vocab_path = JsonPath
    /\ vocab_data = d
    /\ raised = "none"
    /\ error = <<>>
    /\ token_to_id = d
    /\ id_to_token = dict_invert(d)
    /\ vocab = dict_keys(d)
    /\ pad_token_id = dict_get(d, pad_token, None)
    /\ mask_token_id = dict_get(d, mask_token, None)
    /\ unk_token_id = dict_get(d, unk_token, None)
    /\ eos_token_id = dict_get(d, eos_token, None)
    /\ noagent_token_id = dict_get(d, noagent_token, None)

NoCall ==
    /\ op = "none" /\ arg = <<>> /\ ret = <<>>
    /\ prev = [op |-> "none", arg |-> <<>>, ret |-> <<>>]

\* match = None; a match is never the empty string, so "if match" tells
\* the two apart
NoMatch == <<>>

GreedyIdle == pc = "idle" /\ i = 0 /\ tokens = <<>> /\ match = NoMatch

(***************************************************************************)
(* Calls of the public methods.  The methods are pure: a call records its  *)
(* argument and result, Return forgets the record.                         *)
(***************************************************************************)
ThisCall == [op |-> op, arg |-> arg, ret |-> ret]
NoPrev == [op |-> "none", arg |-> <<>>, ret |-> <<>>]

\* the caller drops the result and is ready for the next call
Return ==
    /\ phase = "ready"
    /\ op # "none"
    /\ pc \in {"idle", "done"}
    /\ op' = "none" /\ arg' = <<>> /\ ret' = <<>> /\ prev' = NoPrev
    /\ pc' = "idle" /\ i' = 0 /\ tokens' = <<>> /\ match' = NoMatch
    /\ UNCHANGED objvars

(***************************************************************************)
(* reaction_class_pattern and is_reaction_class (lines 37, 57-59).         *)
(***************************************************************************)
\* \d (the inputs here are ASCII)
Digits == {"0", "1", "2", "3", "4", "5", "6", "7", "8", "9"}

\* ^\d+(\.\d+)* matches exactly s[1..n]: digit groups joined by single dots
rc_prefix(s, n) ==
    /\ 1 <= n /\ n <= Len(s)
    /\ \A p \in 1..n : s[p] \in Digits \cup {"."}
    /\ s[1] \in Digits
    /\ s[n] \in Digits
    /\ \A p \in 1..(n - 1) : ~(s[p] = "." /\ s[p + 1] = ".")

\* $ after n characters: the end of the string, or just before a newline
\* that is the last character
dollar_at(s, n) ==
    \/ n = Len(s)
    \/ (n = Len(s) - 1 /\ s[Len(s)] = "\n")

\* bool(self.reaction_class_pattern.match(text))
is_reaction_class(text) ==
    \E n \in 1..Len(text) : rc_prefix(text, n) /\ dollar_at(text, n)

(***************************************************************************)
(* SMILES_REGEX and tokenize_smiles (lines 40-41, 61-63).                  *)
(***************************************************************************)
\* {1,10} of the bracketed alternative
MaxBracketLen == 10

\* Br|Cl|Si|Se|Na|Ca|Li|Mg|Zn|Cu|Fe|Mn|Hg|Ag|Au
Elements ==
    {<<"B", "r">>, <<"C", "l">>, <<"S", "i">>, <<"S", "e">>, <<"N", "a">>,
     <<"C", "a">>, <<"L", "i">>, <<"M", "g">>, <<"Z", "n">>, <<"C", "u">>,
     <<"F", "e">>, <<"M", "n">>, <<"H", "g">>, <<"A", "g">>, <<"A", "u">>}

\* [B-IK-Zb-ik-z0-9=#$%@+\->\(\)/\\\.]
SingleChars ==
    {"B", "C", "D", "E", "F", "G", "H", "I"} \cup
    {"K", "L", "M", "N", "O", "P", "Q", "R", "S", "T", "U", "V", "W", "X", "Y", "Z"} \cup
    {"b", "c", "d", "e", "f", "g", "h", "i"} \cup
    {"k", "l", "m", "n", "o", "p", "q", "r", "s", "t", "u", "v", "w", "x", "y", "z"} \cup
    Digits \cup
    {"=", "#", "$", "%", "@", "+", "-", ">", "(", ")", "/", "\\", "."}

\* the class without '>'
SingleCharsNoGt == SingleChars \ {">"}

\* \[[^\[\]]{1,10}\] at position p: the length of the match, 0 if none
bracket_len(s, p) ==
    IF /\ s[p] = "["
       /\ \E n \in 1..MaxBracketLen :
             /\ p + n + 1 <= Len(s)
             /\ \A q \in (p + 1)..(p + n) : s[q] \notin {"[", "]"}
             /\ s[p + n + 1] = "]"
    THEN 2 + CHOOSE n \in 1..MaxBracketLen :
             /\ p + n + 1 <= Len(s)
             /\ \A q \in (p + 1)..(p + n) : s[q] \notin {"[", "]"}
             /\ s[p + n + 1] = "]"
    ELSE 0

\* the alternation with the single-character class tried first
match_len_single_first(s, p) ==
    IF s[p] \in SingleChars THEN 1
    ELSE IF p + 1 <= Len(s) /\ s[p] = ">" /\ s[p + 1] = ">" THEN 2
    ELSE IF bracket_len(s, p) > 0 THEN bracket_len(s, p)
    ELSE IF p + 1 <= Len(s) /\ <<s[p], s[p + 1]>> \in Elements THEN 2
    ELSE 0

\* the alternation with '>' left out of the single-character class
match_len_no_gt(s, p) ==
    IF p + 1 <= Len(s) /\ s[p] = ">" /\ s[p + 1] = ">" THEN 2
    ELSE IF bracket_len(s, p) > 0 THEN bracket_len(s, p)
    ELSE IF p + 1 <= Len(s) /\ <<s[p], s[p + 1]>> \in Elements THEN 2
    ELSE IF s[p] \in SingleCharsNoGt THEN 1
    ELSE 0

\* SMILES_REGEX tried at position p: the alternatives in their order; the
\* length of the match, 0 if no alternative matches there
match_len(s, p) ==
    IF p + 1 <= Len(s) /\ s[p] = ">" /\ s[p + 1] = ">" THEN 2
    ELSE IF bracket_len(s, p) > 0 THEN bracket_len(s, p)
    ELSE IF p + 1 <= Len(s) /\ <<s[p], s[p + 1]>> \in Elements THEN 2
    ELSE IF s[p] \in SingleChars THEN 1
    ELSE 0

RECURSIVE scan_from(_, _)
\* the regex scan from position p on: the matches as <<start, length>>, each
\* search resuming where the last match ended, a position without a match
\* skipped
scan_from(s, p) ==
    IF p > Len(s) THEN <<>>
    ELSE IF match_len(s, p) > 0
         THEN <<<<p, match_len(s, p)>>>> \o scan_from(s, p + match_len(s, p))
         ELSE scan_from(s, p + 1)

\* the matches of smiles_pattern in s, left to right
smiles_spans(s) == scan_from(s, 1)

\* self.smiles_pattern.findall(smiles_string): the one group is the match
tokenize_smiles(smiles_string) ==
    LET sp == smiles_spans(smiles_string)
    IN  [n \in 1..Len(sp) |-> SubSeq(smiles_string, sp[n][1], sp[n][1] + sp[n][2] - 1)]

(***************************************************************************)
(* encode (lines 65-86).                                                   *)
(***************************************************************************)
\* the ASCII characters str.strip() and str.split() take for whitespace:
\* space, \t, \n, \r, \f, and the control characters 11 (vertical tab),
\* 28, 29, 30 and 31, written raw
Whitespace == {" ", "\t", "\n", "\r", "\f", "", "", "", "", ""}

RECURSIVE lstrip(_)
lstrip(s) ==
    IF s # <<>> /\ Head(s) \in Whitespace THEN lstrip(Tail(s)) ELSE s

RECURSIVE rstrip(_)
rstrip(s) ==
    IF s # <<>> /\ s[Len(s)] \in Whitespace
    THEN rstrip(SubSeq(s, 1, Len(s) - 1))
    ELSE s

\* text.strip()
strip(s) == rstrip(lstrip(s))

RECURSIVE split_from(_, _, _)
\* str.split() scanning s from position p, cur the piece being collected:
\* a run of whitespace ends a piece, empty pieces are not kept
split_from(s, p, cur) ==
    IF p > Len(s)
    THEN (IF cur = <<>> THEN <<>> ELSE <<cur>>)
    ELSE IF s[p] \in Whitespace
         THEN (IF cur = <<>> THEN <<>> ELSE <<cur>>) \o split_from(s, p + 1, <<>>)
         ELSE split_from(s, p + 1, Append(cur, s[p]))

\* s.split()
split(s) == split_from(s, 1, <<>>)

\* the body of encode's loop with the reaction-class branch left out
piece_tokens_no_class(piece) ==
    IF piece \in vocab
    THEN <<piece>>
    ELSE tokenize_smiles(piece)

\* the body of encode's loop: the tokens one piece appends
piece_tokens(piece) ==
    IF is_reaction_class(piece)
    THEN <<piece>>
    ELSE IF piece \in vocab
         THEN <<piece>>
         ELSE tokenize_smiles(piece)

\* encode's list tokens after the loop
encode_tokens(text) ==
    LET pieces == split(strip(text))
    IN  Concat([n \in 1..Len(pieces) |-> piece_tokens(pieces[n])])

\* encode(text)
encode(text) ==
    LET toks == encode_tokens(text)
    IN  [n \in 1..Len(toks) |-> dict_get(token_to_id, toks[n], unk_token_id)]

(***************************************************************************)
(* decode (lines 88-120).                                                  *)
(***************************************************************************)
\* decode's first loop with the pad test left out
decode_tokens_keep_pad(token_ids) ==
    [n \in 1..Len(token_ids) |->
        IF token_ids[n] \in DOMAIN id_to_token
        THEN id_to_token[token_ids[n]]
        ELSE unk_token]

\* decode's list tokens: pad ids skipped, the others looked up in
\* id_to_token with unk_token as the default
decode_tokens(token_ids) ==
    LET kept == SelectSeq(token_ids, LAMBDA x : x # pad_token_id)
    IN  [n \in 1..Len(kept) |->
            IF kept[n] \in DOMAIN id_to_token
            THEN id_to_token[kept[n]]
            ELSE unk_token]

\* token.startswith('[')
starts_with_bracket(token) == Len(token) >= 1 /\ token[1] = "["

\* the second loop testing only for a leading '['
decode_part_bracket_only(toks, n) ==
    IF n = 1
    THEN toks[n]
    ELSE IF \/ starts_with_bracket(toks[n])
            \/ starts_with_bracket(toks[n - 1])
         THEN <<" ">> \o toks[n]
         ELSE toks[n]

\* what decode's second loop appends to result for toks[n]
decode_part(toks, n) ==
    IF n = 1
    THEN toks[n]
    ELSE IF \/ is_reaction_class(toks[n])
            \/ is_reaction_class(toks[n - 1])
            \/ starts_with_bracket(toks[n])
            \/ starts_with_bracket(toks[n - 1])
         THEN <<" ">> \o toks[n]
         ELSE toks[n]

\* decode(token_ids)
decode(token_ids) ==
    IF token_ids = <<>>
    THEN <<>>
    ELSE LET toks == decode_tokens(token_ids)
         IN  IF toks = <<>>
             THEN <<>>
             ELSE Concat([n \in 1..Len(toks) |-> decode_part(toks, n)])

(***************************************************************************)
(* The calls as actions.                                                   *)
(***************************************************************************)
CanCall == phase = "ready" /\ op = "none" /\ pc = "idle"

DoIsReactionClass(text) ==
    /\ CanCall
    /\ op' = "is_reaction_class" /\ arg' = text /\ ret' = is_reaction_class(text)
    /\ prev' = NoPrev
    /\ UNCHANGED <<objvars, greedyvars>>

DoTokenizeSmiles(smiles_string) ==
    /\ CanCall
    /\ op' = "tokenize_smiles" /\ arg' = smiles_string
    /\ ret' = tokenize_smiles(smiles_string)
    /\ prev' = NoPrev
    /\ UNCHANGED <<objvars, greedyvars>>

DoEncode(text) ==
    /\ CanCall
    /\ op' = "encode" /\ arg' = text /\ ret' = encode(text)
    /\ prev' = NoPrev
    /\ UNCHANGED <<objvars, greedyvars>>

DoDecode(token_ids) ==
    /\ CanCall
    /\ op' = "decode" /\ arg' = token_ids /\ ret' = decode(token_ids)
    /\ prev' = NoPrev
    /\ UNCHANGED <<objvars, greedyvars>>

\* decode applied to what the encode call just returned
DecodeEncoded ==
    /\ phase = "ready" /\ op = "encode" /\ pc = "idle"
    /\ op' = "decode" /\ arg' = ret /\ ret' = decode(ret)
    /\ prev' = ThisCall
    /\ UNCHANGED <<objvars, greedyvars>>

(***************************************************************************)
(* _greedy_tokenize (lines 122-142).                                       *)
(***************************************************************************)
\* the inner loop run upwards: the shortest text[i:j'] that is in vocab
find_match_shortest(text, k, j) ==
    IF \E e \in (k + 1)..j : SubSeq(text, k + 1, e) \in vocab
    THEN SubSeq(text, k + 1,
                CHOOSE e \in (k + 1)..j :
                    /\ SubSeq(text, k + 1, e) \in vocab
                    /\ \A f \in (k + 1)..(e - 1) : SubSeq(text, k + 1, f) \notin vocab)
    ELSE NoMatch

RECURSIVE find_match(_, _, _)
\* the inner loop, for j in range(len(text), i, -1), from j on: the first
\* text[i:j] that is in vocab, match staying None if there is none
\* (positions count from 0, text[i:j] is characters i+1..j)
find_match(text, k, j) ==
    IF j <= k
    THEN NoMatch
    ELSE IF SubSeq(text, k + 1, j) \in vocab
         THEN SubSeq(text, k + 1, j)
         ELSE find_match(text, k, j - 1)

\* i += 0 where no key matched
greedy_advance_stuck(m) == IF m # NoMatch THEN Len(m) ELSE 0

\* what one iteration adds to i: len(match) or 1
greedy_advance(m) == IF m # NoMatch THEN Len(m) ELSE 1

\* what one iteration appends to tokens: match or unk_token
greedy_emit(m) == IF m # NoMatch THEN m ELSE unk_token

\* _greedy_tokenize(text) is entered: i = 0, tokens = []
DoGreedyTokenize(text) ==
    /\ CanCall
    /\ op' = "_greedy_tokenize" /\ arg' = text /\ ret' = <<>>
    /\ prev' = NoPrev
    /\ pc' = "loop" /\ i' = 0 /\ tokens' = <<>> /\ match' = NoMatch
    /\ UNCHANGED objvars

\* one iteration of the while loop
GreedyIter ==
    /\ pc = "loop"
    /\ i < Len(arg)
    /\ match' = find_match(arg, i, Len(arg))
    /\ tokens' = Append(tokens, greedy_emit(match'))
    /\ i' = i + greedy_advance(match')
    /\ UNCHANGED <<objvars, op, arg, ret, prev, pc>>

\* the while condition fails: return tokens
GreedyReturn ==
    /\ pc = "loop"
    /\ ~(i < Len(arg))
    /\ ret' = tokens
    /\ pc' = "done"
    /\ UNCHANGED <<objvars, op, arg, prev, i, tokens, match>>

(***************************************************************************)
(* Vocabularies.                                                           *)
(***************************************************************************)
\* the dict with the given keys, in this order, and ids
dict_of(keys, ids) == [n \in 1..Len(keys) |-> [k |-> keys[n], v |-> ids[n]]]

\* the dict with the given keys numbered base, base + 1, ...
numbered(keys, base) == [n \in 1..Len(keys) |-> [k |-> keys[n], v |-> base + n - 1]]

(***************************************************************************)
(* SpecConstruct: construction on every candidate mapping.                 *)
(***************************************************************************)
\* keys a candidate mapping may hold, in file order
ConstructPool == <<pad_token, mask_token, unk_token, eos_token, noagent_token, <<"C">>>>

\* the mapping that holds ConstructPool[n] with id c[n] unless c[n] = None
PoolDict(c) ==
    LET items == [n \in 1..Len(ConstructPool) |-> [k |-> ConstructPool[n], v |-> c[n]]]
    IN  SelectSeq(items, LAMBDA it : it.v # None)

\* the direct mappings: ConstructPool's keys, present or not, ids 0..MaxId
FlatCandidates ==
    {PoolDict(c) : c \in [1..Len(ConstructPool) -> {None} \cup (0..MaxId)]}

\* a file holds a direct mapping, a direct mapping with a token named
\* 'token_to_id', or a mapping nested under the key 'token_to_id', alone or
\* beside the five special tokens
ConstructCandidates ==
    FlatCandidates
    \cup {d \o <<[k |-> token_to_id_key, v |-> MaxId]>> : d \in FlatCandidates}
    \cup {<<[k |-> token_to_id_key, m |-> d]>> : d \in FlatCandidates}
    \cup {numbered(required_tokens, 0) \o <<[k |-> token_to_id_key, m |-> d]>> :
            d \in FlatCandidates}

InitConstruct ==
    /\ \E path \in {JsonPath, TxtPath}, d \in ConstructCandidates : Unbuilt(path, d)
    /\ NoCall
    /\ GreedyIdle

NextConstruct == Construct

SpecConstruct == InitConstruct /\ [][NextConstruct]_vars

\* __init__ was handed a token_to_id mapping: what lines 7-17 take as
\* token_to_id is a mapping from tokens to integer ids
SuppliedMapping ==
    /\ loaded_is_mapping(vocab_path, vocab_data)
    /\ values_hashable(loaded_token_to_id(vocab_path, vocab_data))

\* C1: construction fails with the missing-special-token error, naming a
\* missing token, if and only if one of the five required special tokens is
\* not a key of the supplied token_to_id mapping; it succeeds on every such
\* mapping holding all five, whatever their ids.
C1_ConstructFailsIffMissing ==
    phase # "unbuilt" =>
        IF SuppliedMapping
        THEN LET absent == {n \in 1..5 : required_tokens[n] \notin dict_keys(token_to_id)}
             IN  /\ (phase = "failed" /\ raised = "ValueError") <=> (absent # {})
                 /\ (phase = "ready") <=> (absent = {})
                 /\ phase = "failed" =>
                       \E n \in absent : error = required_tokens[n]
        ELSE raised # "ValueError"

\* C1 witness: a mapping nested under 'token_to_id' with all five tokens,
\* one of them with id 0, built
C1_Witness ==
    /\ phase = "ready"
    /\ takes_nested(vocab_path, vocab_data)
    /\ pad_token_id = 0
    /\ \A n \in 1..5 : required_tokens[n] \in dict_keys(token_to_id)

(***************************************************************************)
(* SpecClass: is_reaction_class on every short string.                     *)
(***************************************************************************)
\* longest string of ClassAlphabet tried
MaxClassLen == 4

ClassAlphabet == {"1", "2", ".", "a", " ", "\n"}

ClassExamples ==
    {<<"2", ".", "1", "2", ".", "1", "3">>,
     <<"7">>,
     <<>>,
     <<"C", "C", "O">>,
     <<"2", ".", ".", "3">>,
     <<"1", ".", "2", ".", ".", "3">>,
     <<"2", ".", "a">>,
     <<"7", "\n">>,
     <<"2", ".", "1", "2", ".", "1", "3", "\n">>}

ClassTexts == SeqsUpTo(ClassAlphabet, MaxClassLen) \cup ClassExamples

InitClass ==
    /\ Built(numbered(required_tokens, 0))
    /\ NoCall
    /\ GreedyIdle

CallIsReactionClass == \E text \in ClassTexts : DoIsReactionClass(text)

NextClass == CallIsReactionClass \/ Return

SpecClass == InitClass /\ [][NextClass]_vars

\* one or more non-empty groups of digits separated by single dots, with
\* nothing before or after
DottedDigits(s) ==
    /\ Len(s) >= 1
    /\ \A p \in 1..Len(s) : s[p] \in Digits \cup {"."}
    /\ s[1] # "." /\ s[Len(s)] # "."
    /\ \A p \in 1..(Len(s) - 1) : ~(s[p] = "." /\ s[p + 1] = ".")

\* C7: is_reaction_class(text) is true if and only if the whole of text is
\* one or more non-empty groups of digits separated by single dots; any
\* extra character after the last digit, a newline included, is rejected.
C7_ClassIffDottedDigits ==
    op = "is_reaction_class" => (ret <=> DottedDigits(arg))

(***************************************************************************)
(* SpecSmiles: tokenize_smiles on every short string, encode on examples.  *)
(***************************************************************************)
\* longest string of SmilesAlphabet tried
MaxSmilesLen == 4

SmilesAlphabet == {"C", "l", ">", "[", "]", "J"}

AmineSalt == <<"C", "[", "N", "+", "]", "(", "C", ")", "(", "C", ")", "C", ".", "C", "l">>
AmineSaltTokens ==
    <<<<"C">>, <<"[", "N", "+", "]">>, <<"(">>, <<"C">>, <<")">>, <<"(">>, <<"C">>, <<")">>, <<"C">>, <<".">>, <<"C", "l">>>>
Class311 == <<"3", ".", "1", ".", "1">>
AmineSaltText == AmineSalt \o <<" ">> \o Class311

SmilesExamples ==
    {AmineSalt,
     <<"[", "C", "C", "C", "C", "C", "C", "C", "C", "C", "C", "]">>,
     <<"[", "C", "C", "C", "C", "C", "C", "C", "C", "C", "C", "C", "]">>,
     <<"C", "C", "O", ">", "N", "a", "O", "H", ">", "C", "C", "C", "B", "r">>,
     <<"C", "C", "O", ">", ">", "C", "C", "C", "B", "r">>,
     <<"a", "N", "a", "A">>,
     <<"C", "a", "A", "g", "A", "u">>,
     <<"j", "A", "a">>,
     <<"B", "B", "r">>,
     <<"S", "i", "S", "e">>,
     <<"C", " ", "J">>,
     <<"A">>,
     <<"(", "=", "O", ")">>}

SmilesTexts == SeqsUpTo(SmilesAlphabet, MaxSmilesLen) \cup SmilesExamples

SmilesEncodeTexts ==
    {AmineSaltText, AmineSalt, Class311, Class311 \o <<" ">> \o AmineSalt}

\* the tokens of AmineSalt, then either of Class311 and AmineSalt or neither
SmilesVocabs ==
    {numbered(required_tokens \o <<<<"C">>, <<"[", "N", "+", "]">>, <<"(">>, <<")">>, <<".">>, <<"C", "l">>>> \o extra, 0) :
        extra \in {<<>>, <<Class311>>, <<AmineSalt>>, <<Class311, AmineSalt>>}}

InitSmiles ==
    /\ \E d \in SmilesVocabs : Built(d)
    /\ NoCall
    /\ GreedyIdle

CallTokenizeSmiles == \E text \in SmilesTexts : DoTokenizeSmiles(text)

CallEncodeSmiles == \E text \in SmilesEncodeTexts : DoEncode(text)

NextSmiles == CallTokenizeSmiles \/ CallEncodeSmiles \/ Return

SpecSmiles == InitSmiles /\ [][NextSmiles]_vars

\* a bracketed group: '[', 1 to 10 characters that are no brackets, ']'
IsBracketGroup(t) ==
    /\ Len(t) >= 3 /\ Len(t) <= MaxBracketLen + 2
    /\ t[1] = "[" /\ t[Len(t)] = "]"
    /\ \A q \in 2..(Len(t) - 1) : t[q] \notin {"[", "]"}

GtGt == <<">", ">">>

\* a token the segmenter may emit, given the single-character class
IsSmilesToken(t, class) ==
    \/ t = GtGt
    \/ IsBracketGroup(t)
    \/ t \in Elements
    \/ (Len(t) = 1 /\ t[1] \in class)

\* the characters of a string without brackets that end up in a token: those
\* of the single-character class, 'a' after 'N' or 'C' (Na, Ca), and 'A'
\* before 'g' or 'u' (Ag, Au)
KeptChars(s) ==
    LET keep(p) ==
            \/ s[p] \in SingleChars
            \/ (s[p] = "a" /\ p > 1 /\ s[p - 1] \in {"N", "C"})
            \/ (s[p] = "A" /\ p < Len(s) /\ s[p + 1] \in {"g", "u"})
        RECURSIVE pick(_)
        pick(p) == IF p > Len(s) THEN <<>>
                   ELSE (IF keep(p) THEN <<s[p]>> ELSE <<>>) \o pick(p + 1)
    IN  pick(1)

HasBracket(s) == \E p \in 1..Len(s) : s[p] \in {"[", "]"}

\* C3 as stated: every token is ">>", a bracketed group, a listed element or
\* one character of the class {B-I, K-Z, b-i, k-z, 0-9, = # $ % @ + - ( ) / \ .};
\* no token is a lone ">", "J" or "j".
C3_BareGtDropped ==
    op = "tokenize_smiles" =>
        \A n \in 1..Len(ret) :
            /\ IsSmilesToken(ret[n], SingleCharsNoGt)
            /\ ret[n] \notin {<<">">>, <<"J">>, <<"j">>}

\* C3 as amended: every token is ">>", a bracketed group, a listed element
\* or one character of the class, which includes '>'; a character that is
\* part of none of these is dropped, so no token is "J" or "j", and outside
\* brackets the tokens spell the text without its dropped characters (a
\* bare '>' stays, as the token ">").
C3_UnmatchedDropped ==
    op = "tokenize_smiles" =>
        /\ \A n \in 1..Len(ret) :
              /\ IsSmilesToken(ret[n], SingleChars)
              /\ ret[n] \notin {<<"J">>, <<"j">>}
        /\ ~HasBracket(arg) => Concat(ret) = KeptChars(arg)

\* C3 witness: a text with a bare '>' and a 'J' was segmented, the '>' kept
\* as a token and the 'J' dropped
C3_Witness ==
    /\ op = "tokenize_smiles"
    /\ arg = <<"C", ">", "J", "C">>
    /\ ret = <<<<"C">>, <<">">>, <<"C">>>>


\* the alternatives of the segmenter at position p of s
GtGtAt(s, p) == p + 1 <= Len(s) /\ s[p] = ">" /\ s[p + 1] = ">"
BracketAt(s, p, len) == p + len - 1 <= Len(s) /\ IsBracketGroup(SubSeq(s, p, p + len - 1))
ElementAt(s, p) == p + 1 <= Len(s) /\ SubSeq(s, p, p + 1) \in Elements
SingleAt(s, p) == s[p] \in SingleChars
BracketLens == 3..(MaxBracketLen + 2)

\* sp is the ordered-alternative left-to-right scan of s: the matches lie in
\* s in order without overlap, each is the first alternative that applies
\* where it starts, and no alternative applies at a position outside them
OrderedScan(s, sp) ==
    /\ \A n \in 1..Len(sp) :
          /\ sp[n][1] >= 1 /\ sp[n][2] >= 1
          /\ sp[n][1] + sp[n][2] - 1 <= Len(s)
    /\ \A n \in 1..(Len(sp) - 1) : sp[n + 1][1] >= sp[n][1] + sp[n][2]
    /\ \A n \in 1..Len(sp) :
          LET p == sp[n][1]
              len == sp[n][2]
          IN  IF GtGtAt(s, p) THEN len = 2
              ELSE IF \E m \in BracketLens : BracketAt(s, p, m) THEN BracketAt(s, p, len)
              ELSE IF ElementAt(s, p) THEN len = 2
              ELSE SingleAt(s, p) /\ len = 1
    /\ \A q \in 1..Len(s) :
          (\A n \in 1..Len(sp) : q < sp[n][1] \/ q >= sp[n][1] + sp[n][2]) =>
              /\ ~GtGtAt(s, q)
              /\ \A m \in BracketLens : ~BracketAt(s, q, m)
              /\ ~ElementAt(s, q)
              /\ ~SingleAt(s, q)

\* lookup_id: the id of a token, the [UNK] id for a token that is no key
LookupId(t) ==
    IF t \in dict_keys(token_to_id) THEN dict_get(token_to_id, t, None) ELSE unk_token_id

\* the segmenter's part of C8
C8_Segmenter ==
    op = "tokenize_smiles" =>
        /\ OrderedScan(arg, smiles_spans(arg))
        /\ ret = [n \in 1..Len(smiles_spans(arg)) |->
                    SubSeq(arg, smiles_spans(arg)[n][1],
                           smiles_spans(arg)[n][1] + smiles_spans(arg)[n][2] - 1)]
        /\ arg = AmineSalt => ret = AmineSaltTokens

\* the ids C8 expects of encode("C[N+](C)(C)C.Cl 3.1.1")
AmineSaltIds ==
    [n \in 1..Len(AmineSaltTokens) |-> LookupId(AmineSaltTokens[n])] \o <<LookupId(Class311)>>

\* C8 as stated: the segmenter is an ordered-alternative left-to-right scan
\* (">>", bracketed group, two-letter element, single character), so none of
\* the first three is split; "C[N+](C)(C)C.Cl" segments to C, [N+], (, C, ),
\* (, C, ), C, ., Cl; and encode("C[N+](C)(C)C.Cl 3.1.1") yields the ids of
\* those eleven tokens followed by one id for "3.1.1".
C8_OrderedScanAndExample ==
    /\ C8_Segmenter
    /\ (op = "encode" /\ arg = AmineSaltText) => ret = AmineSaltIds

\* C8 as amended: the same, the encode example for a vocabulary in which
\* the piece "C[N+](C)(C)C.Cl" is not itself a key.
C8_OrderedScanAndExampleNoKey ==
    /\ C8_Segmenter
    /\ (op = "encode" /\ arg = AmineSaltText /\ AmineSalt \notin vocab) =>
          ret = AmineSaltIds

\* C8 witness: the example was encoded to twelve ids by a vocabulary without
\* the piece and without "3.1.1"
C8_Witness ==
    /\ op = "encode" /\ arg = AmineSaltText
    /\ AmineSalt \notin vocab /\ Class311 \notin vocab
    /\ Len(ret) = 12 /\ ret[12] = unk_token_id /\ ret[2] # unk_token_id

(***************************************************************************)
(* SpecEncode: encode on every short text.                                 *)
(***************************************************************************)
\* longest text of EncodeAlphabet tried
MaxEncodeLen == 4

EncodeAlphabet == {"C", "1", ".", " ", ""}

EncodeExamples ==
    {<<"C", "C", "1", " ", "1", ".", "1">>,
     <<"1", ".", "1", " ", "C", "1">>,
     <<"C", ".", "C", "\n", "1", "1">>,
     <<" ", " ", "C", "1", " ", " ", "1", ".", "1", ".", "1", " ">>,
     <<"[", "P", "A", "D", "]", " ", "C">>,
     <<"C", " ", "[", "U", "N", "K", "]">>,
     <<"C", "J", ">", "C">>,
     <<"1", ".", "1", "">>,
     <<"1", "1", "", "1">>,
     <<"", "C", "", "1", ".", "1", "", "C", "1", "">>,
     <<"\t", "C", "\r", "1", ".", "1", "\f", "C", "1", "\n">>}

EncodeTexts == SeqsUpTo(EncodeAlphabet, MaxEncodeLen) \cup EncodeExamples

\* C and 1 are keys and . is not; the class 11 and the piece C1 are keys or not
EncodeVocabs ==
    {numbered(required_tokens \o <<<<"C">>, <<"1">>>> \o extra, 0) :
        extra \in {<<>>, <<<<"1", "1">>>>, <<<<"C", "1">>>>, <<<<"1", "1">>, <<"C", "1">>>>}}

InitEncode ==
    /\ \E d \in EncodeVocabs : Built(d)
    /\ NoCall
    /\ GreedyIdle

CallEncode == \E text \in EncodeTexts : DoEncode(text)

NextEncode == CallEncode \/ Return

SpecEncode == InitEncode /\ [][NextEncode]_vars

\* the pieces of s: its maximal runs of characters that are no whitespace,
\* as <<first, last>>
PieceRuns(s) ==
    {r \in (1..Len(s)) \X (1..Len(s)) :
        /\ r[1] <= r[2]
        /\ \A p \in r[1]..r[2] : s[p] \notin Whitespace
        /\ (r[1] = 1 \/ s[r[1] - 1] \in Whitespace)
        /\ (r[2] = Len(s) \/ s[r[2] + 1] \in Whitespace)}

RECURSIVE RunsInOrder(_)
\* a set of runs as the sequence of their texts' bounds, leftmost first
RunsInOrder(R) ==
    IF R = {} THEN <<>>
    ELSE LET first == CHOOSE r \in R : \A q \in R : r[1] <= q[1]
         IN  <<first>> \o RunsInOrder(R \ {first})

\* the tokens C4 gives one piece
PieceExpected(piece) ==
    IF DottedDigits(piece) THEN <<piece>>
    ELSE IF piece \in dict_keys(token_to_id) THEN <<piece>>
    ELSE tokenize_smiles(piece)

\* the ids C4 gives a text
ExpectedIds(s) ==
    LET runs == RunsInOrder(PieceRuns(s))
        toks == Concat([n \in 1..Len(runs) |->
                          PieceExpected(SubSeq(s, runs[n][1], runs[n][2]))])
    IN  [n \in 1..Len(toks) |-> LookupId(toks[n])]

\* C4: encode splits the text on whitespace and, for each non-empty piece
\* from left to right, emits one token if the piece is a reaction class (key
\* or not, never segmented), else one token if the piece is a vocabulary
\* key, else the segmenter's tokens of the piece; the result is the ids of
\* these tokens in order, the [UNK] id for every token that is no key.
C4_EncodePerPiece ==
    op = "encode" =>
        /\ ret = ExpectedIds(arg)
        /\ (DottedDigits(strip(arg)) /\ strip(arg) \notin vocab) => ret = <<unk_token_id>>

\* C4 witness: a text of a reaction class that is no key and a piece that is
\* a key was encoded to two ids
C4_Witness ==
    /\ op = "encode"
    /\ arg = <<"1", ".", "1", " ", "C", "1">>
    /\ <<"C", "1">> \in vocab
    /\ ret = <<unk_token_id, dict_get(token_to_id, <<"C", "1">>, None)>>


(***************************************************************************)
(* SpecRoundTrip: encode, then decode of the ids it returned.              *)
(***************************************************************************)
Ethanol == <<"C", "C", "O", ">", ">", "C", "C", "C", "B", "r">>
Class21213 == <<"2", ".", "1", "2", ".", "1", "3">>
EthanolText == Ethanol \o <<" ">> \o Class21213

RoundTripTexts ==
    {EthanolText, Ethanol, Class21213,
     <<"C", "C", "O", " ", "2", ".", "1", "2", ".", "1", "3">>,
     <<"C", "C", "O", ">", ">", "C", "C", "C", "B", "r", " ", " ", "2", ".", "1", "2", ".", "1", "3">>,
     <<"C", "C", "O", ">", "C", "C", "C", "B", "r", " ", "2", ".", "1", "2", ".", "1", "3">>,
     <<"B", "r", ">", ">", "B", " ", "r">>}

\* the single characters of "CCO>>CCCBr" and the token ">>"
EthanolKeys == <<<<"C">>, <<"O">>, <<">">>, <<"B">>, <<"r">>, <<">", ">">>>>

\* further keys a vocabulary may hold
RoundTripOptional == {<<"B", "r">>, Class21213, Ethanol}

RECURSIVE SetToSeq(_)
\* the members of a set of tokens, in some order
SetToSeq(S) ==
    IF S = {} THEN <<>>
    ELSE LET x == CHOOSE x \in S : TRUE IN <<x>> \o SetToSeq(S \ {x})

\* the ids n-1 in file order, or counted down from the last
Ascending(keys) == [n \in 1..Len(keys) |-> n - 1]
Descending(keys) == [n \in 1..Len(keys) |-> Len(keys) - n]

\* the required tokens and EthanolKeys with any of the optional keys, ids
\* distinct; and the same with a last key "X" that shares the id of "C"
RoundTripVocabs ==
    LET keysets == {required_tokens \o EthanolKeys \o SetToSeq(S) : S \in SUBSET RoundTripOptional}
        distinct == {dict_of(ks, Ascending(ks)) : ks \in keysets}
                      \cup {dict_of(ks, Descending(ks)) : ks \in keysets}
        shared == {d \o <<[k |-> <<"X">>, v |-> dict_get(d, <<"C">>, None)]>> : d \in distinct}
    IN  distinct \cup shared

InitRoundTrip ==
    /\ \E d \in RoundTripVocabs : Built(d)
    /\ NoCall
    /\ GreedyIdle

CallEncodeRoundTrip == \E text \in RoundTripTexts : DoEncode(text)

NextRoundTrip == CallEncodeRoundTrip \/ DecodeEncoded \/ Return

SpecRoundTrip == InitRoundTrip /\ [][NextRoundTrip]_vars

\* no two keys of token_to_id share an id
DistinctIds ==
    \A m, n \in 1..Len(token_to_id) :
        m # n => token_to_id[m].v # token_to_id[n].v

\* the vocabulary holds every single character of "CCO>>CCCBr" and ">>"
HasEthanolKeys == \A n \in 1..Len(EthanolKeys) : EthanolKeys[n] \in vocab

\* decode was applied to the ids encode returned for text
RoundTripOf(text) ==
    op = "decode" /\ prev.op = "encode" /\ prev.arg = text /\ arg = prev.ret

\* C2 as stated: with the required special tokens, every single character of
\* "CCO>>CCCBr" and ">>" in the vocabulary, ids distinct,
\* decode(encode("CCO>>CCCBr 2.12.13")) is "CCO>>CCCBr 2.12.13".
C2_RoundTrip ==
    (RoundTripOf(EthanolText) /\ HasEthanolKeys /\ DistinctIds) =>
        ret = EthanolText

\* C2 as amended: the same for a vocabulary that also holds the tokens "Br"
\* and "2.12.13".
C2_RoundTripWithBrAndClass ==
    (/\ RoundTripOf(EthanolText) /\ HasEthanolKeys /\ DistinctIds
     /\ <<"B", "r">> \in vocab /\ Class21213 \in vocab) =>
        ret = EthanolText

\* C2 witness: the example went through encode and decode of a vocabulary
\* with "Br" and "2.12.13" but not the whole piece, eight tokens and the class
C2_Witness ==
    /\ RoundTripOf(EthanolText) /\ HasEthanolKeys /\ DistinctIds
    /\ <<"B", "r">> \in vocab /\ Class21213 \in vocab /\ Ethanol \notin vocab
    /\ Len(arg) = 9
    /\ ret = EthanolText

(***************************************************************************)
(* SpecDecode: decode on every short id sequence.                          *)
(***************************************************************************)
\* longest id sequence tried
MaxDecodeLen == 3

SevenNewline == <<"7", "\n">>

\* the tokens decode meets: specials, a SMILES token, a reaction class, and
\* a key that is a class followed by a newline
DecodeKeys == required_tokens \o <<<<"C">>, <<"2", ".", "1">>, SevenNewline>>

\* ids in file order; ids counted down, so that [PAD] is not 0; and ids in
\* file order with a last key "X" sharing the [PAD] id
DecodeVocabs ==
    {dict_of(DecodeKeys, Ascending(DecodeKeys)),
     dict_of(DecodeKeys, Descending(DecodeKeys)),
     dict_of(DecodeKeys, Ascending(DecodeKeys)) \o <<[k |-> <<"X">>, v |-> 0]>>}

\* every id of the vocabulary and one that is no id of it
DecodeIds == 0..Len(DecodeKeys)

InitDecode ==
    /\ \E d \in DecodeVocabs : Built(d)
    /\ NoCall
    /\ GreedyIdle

CallDecode == \E token_ids \in SeqsUpTo(DecodeIds, MaxDecodeLen) : DoDecode(token_ids)

NextDecode == CallDecode \/ Return

SpecDecode == InitDecode /\ [][NextDecode]_vars

\* s without its pad ids
WithoutPad(s) == SelectSeq(s, LAMBDA x : x # pad_token_id)

\* C5: decode(s) is decode of s without its pad ids, for ids in and out of
\* the vocabulary; decode of the empty sequence and of pad ids only is "".
C5_DecodeIgnoresPad ==
    op = "decode" =>
        /\ ret = decode(WithoutPad(arg))
        /\ WithoutPad(arg) = <<>> => ret = <<>>
        /\ \A n \in 1..Len(arg) :
              arg[n] = pad_token_id =>
                  ret = decode(SubSeq(arg, 1, n - 1) \o SubSeq(arg, n + 1, Len(arg)))

\* C5 witness: a pad id, an id outside the vocabulary and the id of "C"
\* were decoded
C5_Witness ==
    /\ op = "decode"
    /\ Len(arg) = 3 /\ arg[1] = pad_token_id /\ arg[2] \notin DOMAIN id_to_token
    /\ arg[3] = dict_get(token_to_id, <<"C">>, None)
    /\ ret = unk_token \o <<" ", "C">>

\* lookup_token: the token of an id, "[UNK]" for an id absent from id_to_token
LookupToken(x) == IF x \in DOMAIN id_to_token THEN id_to_token[x] ELSE unk_token

\* a reaction class (digit groups joined by single dots) or a token that
\* starts with '['
Spaced(t) == DottedDigits(t) \/ (Len(t) >= 1 /\ t[1] = "[")

RECURSIVE SpacedJoin(_, _)
\* the tokens from the n-th on, each after the first preceded by one space
\* iff it or its predecessor is Spaced
SpacedJoin(toks, n) ==
    IF n > Len(toks) THEN <<>>
    ELSE (IF n > 1 /\ (Spaced(toks[n]) \/ Spaced(toks[n - 1])) THEN <<" ">> ELSE <<>>)
         \o toks[n] \o SpacedJoin(toks, n + 1)

\* C6: decode maps the non-pad ids to tokens ("[UNK]" for ids absent from
\* id_to_token) and concatenates them, the first without separator, each
\* later one preceded by exactly one space iff it or its predecessor is a
\* reaction class or starts with '[', else by nothing.
C6_SpacingRule ==
    op = "decode" =>
        ret = SpacedJoin([n \in 1..Len(WithoutPad(arg)) |-> LookupToken(WithoutPad(arg)[n])], 1)


(***************************************************************************)
(* SpecGreedy: _greedy_tokenize, one loop iteration per step.  The call is *)
(* synchronous: once entered, the loop keeps running (weak fairness).      *)
(***************************************************************************)
\* longest text of GreedyAlphabet tried
MaxGreedyLen == 3

GreedyAlphabet == {"a", "b", "c"}

GreedyExamples ==
    {<<"a", "b", "c">>,
     <<"a", "[", "U", "N", "K", "]", "b">>,
     <<"[", "U", "N", "K", "]">>,
     <<"a", "b", "c", "a", "b", "c">>}

GreedyTexts == SeqsUpTo(GreedyAlphabet, MaxGreedyLen) \cup GreedyExamples

GreedyOptional == {<<"a">>, <<"a", "b">>, <<"b", "c">>, <<"a", "b", "c">>}

GreedyVocabs ==
    {numbered(required_tokens \o SetToSeq(S), 0) : S \in SUBSET GreedyOptional}

InitGreedy ==
    /\ \E d \in GreedyVocabs : Built(d)
    /\ NoCall
    /\ GreedyIdle

CallGreedyTokenize == \E text \in GreedyTexts : DoGreedyTokenize(text)

NextGreedy == CallGreedyTokenize \/ GreedyIter \/ GreedyReturn \/ Return

SpecGreedy ==
    /\ InitGreedy /\ [][NextGreedy]_vars
    /\ WF_vars(GreedyIter) /\ WF_vars(GreedyReturn)

\* text[a:b], positions counted from 0
Slice(text, a, b) == SubSeq(text, a + 1, b)

\* the iteration at position i emitted the longest key that starts there
\* and advanced by its length, or "[UNK]" and advanced by 1 if no key starts
\* there
LongestFirstStep ==
    (pc = "loop" /\ tokens' # tokens) =>
        LET ends == {j \in (i + 1)..Len(arg) : Slice(arg, i, j) \in vocab}
            t == tokens'[Len(tokens')]
        IN  /\ tokens' = Append(tokens, t)
            /\ IF ends = {}
               THEN t = unk_token /\ i' = i + 1
               ELSE /\ i' \in ends
                    /\ \A j \in ends : j <= i'
                    /\ t = Slice(arg, i, i')

\* C9: the legacy tokenizer scans from position 0 and at each position emits
\* the longest substring starting there that is a vocabulary key, advancing
\* by its length, or "[UNK]", advancing by 1, when there is none; with the
\* keys "ab" and "a" (and "[UNK]") it turns "abc" into ["ab", "[UNK]"].
C9_GreedyLongestMatch ==
    /\ [](pc = "loop" /\ tokens = <<>> => i = 0)
    /\ [][LongestFirstStep]_vars
    /\ []((/\ pc = "done" /\ arg = <<"a", "b", "c">>
           /\ vocab \cap GreedyOptional = {<<"a", "b">>, <<"a">>}) =>
             ret = <<<<"a", "b">>, unk_token>>)

\* C9 witness: "abc" was tokenized with the keys "ab" and "a"
C9_Witness ==
    /\ pc = "done" /\ arg = <<"a", "b", "c">>
    /\ vocab \cap GreedyOptional = {<<"a", "b">>, <<"a">>}
    /\ ret = <<<<"a", "b">>, unk_token>>

\* what an iteration consumed, by the token it emitted: the token's length
\* for a key, 1 for the [UNK] fallback
ConsumedStep ==
    (pc = "loop" /\ tokens' # tokens) =>
        /\ i' > i
        /\ i' <= Len(arg)
        /\ Len(tokens') = Len(tokens) + 1
        /\ i' - i = (IF match' # NoMatch THEN Len(tokens'[Len(tokens')]) ELSE 1)

\* C10: the scan terminates and consumes the text exactly once: i grows in
\* every iteration and never passes len(text), every iteration consumes the
\* length of the key it emitted or 1 for a fallback [UNK], the loop ends
\* with i = len(text) after at most len(text) tokens.
C10_GreedyTerminates ==
    /\ [](pc \in {"loop", "done"} => (0 <= i /\ i <= Len(arg) /\ Len(tokens) <= i))
    /\ [][ConsumedStep]_vars
    /\ [](pc = "done" => (i = Len(arg) /\ Len(ret) <= Len(arg) /\ ret = tokens))
    /\ ((pc = "loop") ~> (pc = "done"))

\* C10 witness: a text with a key of length 5 and a fallback was consumed
C10_Witness ==
    /\ pc = "done" /\ arg = <<"a", "[", "U", "N", "K", "]", "b">>
    /\ i = 7 /\ Len(ret) = 3

=============================================================================
